---- MODULE Spec2Model ----
(***************************************************************************)
(* EBUR128Control (src/ext/ebur128control/ebur128control.cpp): a GStreamer *)
(* audio filter that scales samples by a gain derived from two loudness    *)
(* properties.  Two threads act on one element: a control thread calling   *)
(* set_property and the streaming thread on which the pipeline calls       *)
(* setup, before_transform and transform_ip.  Every access to a shared     *)
(* field is one step of its thread, so the interleavings of the two        *)
(* threads are the behaviours of the module.                               *)
(*                                                                         *)
(* Numbers.  A double or float is modelled by its class and, when finite   *)
(* and non-zero, by its magnitude in dB (20*log10): 10^(d/20) is Fin(d).   *)
(* Multiplying magnitudes adds their dB; a result outside the range of     *)
(* the type becomes Zero or Inf as IEEE-754 rounding does.  A LUFS value   *)
(* is db + eps*e with e far below the resolution of pow() around 1.0; eps  *)
(* is non-zero only for values next to 0.0, where a double can hold it.    *)
(***************************************************************************)
EXTENDS Integers, Sequences, FiniteSets, TLC

\* Largest number of samples of a buffer the pipeline delivers.
MaxSamples == 2

\* pow(10., d/20.) is 0.0 in double for d <= -6473 and +inf for d >= 6166.
DblUnderflowDb == 6473
DblOverflowDb == 6166
\* The same thresholds for gfloat.
FltUnderflowDb == 904
FltOverflowDb == 771

DefaultLufsDb == -23

Zero == [cls |-> "zero", db |-> 0]
Inf == [cls |-> "inf", db |-> 0]
NaN == [cls |-> "nan", db |-> 0]
Garbage == [cls |-> "garbage", db |-> 0]
Fin(d) == [cls |-> "fin", db |-> d]

Lufs(d) == [db |-> d, eps |-> 0]

RoundDouble(d) ==
  IF d <= -DblUnderflowDb THEN Zero
  ELSE IF d >= DblOverflowDb THEN Inf
  ELSE Fin(d)

RoundFloat(d) ==
  IF d <= -FltUnderflowDb THEN Zero
  ELSE IF d >= FltOverflowDb THEN Inf
  ELSE Fin(d)

mute_volume == Zero
neutral_volume == Fin(0)

\* ---- formats and kernels ------------------------------------------------

Formats == {"F32", "F64", "S16"}
FloatFormats == {"F32", "F64"}
NoFormat == "UNKNOWN"
NoKernel == "nullptr"

\* Bytes of one sample of a stream format.
Width(fmt) ==
  CASE fmt = "F32" -> 4
    [] fmt = "F64" -> 8
    [] fmt = "S16" -> 2
    [] OTHER -> 1

\* sizeof(T) of the kernel process<T>.
SizeofT(kernel) == IF kernel = "F32" THEN 4 ELSE 8

\* T vol = self->committed_params.p.volume
ToT(kernel, vol) ==
  IF kernel = "F32" /\ vol.cls = "fin" THEN RoundFloat(vol.db) ELSE vol

RoundT(kernel, d) == IF kernel = "F32" THEN RoundFloat(d) ELSE RoundDouble(d)

\* *data *= vol, in the arithmetic of T.
Mul(kernel, x, vol) ==
  CASE x.cls = "garbage" \/ vol.cls = "garbage" -> Garbage
    [] x.cls = "nan" \/ vol.cls = "nan" -> NaN
    [] x.cls = "zero" -> IF vol.cls = "inf" THEN NaN ELSE Zero
    [] x.cls = "inf" -> IF vol.cls = "zero" THEN NaN ELSE Inf
    [] OTHER -> CASE vol.cls = "zero" -> Zero
                  [] vol.cls = "inf" -> Inf
                  [] OTHER -> RoundT(kernel, x.db + vol.db)

\* ---- GainComputer ------------------------------------------------------

\* Mutant of computeGain_dB: the levels are added.
computeGain_dB_sum(source_dB, target_dB) ==
  [db |-> target_dB.db + source_dB.db, eps |-> target_dB.eps + source_dB.eps]

\* Mutant of computeGain_dB: the operands of the difference are exchanged.
computeGain_dB_exchanged(source_dB, target_dB) ==
  LET d == source_dB.db - target_dB.db
  IN IF d # 0 THEN [db |-> d, eps |-> 0]
     ELSE [db |-> 0, eps |-> source_dB.eps - target_dB.eps]

\* target_dB - source_dB, rounded to double: next to a non-zero difference
\* of whole dB the eps part is below half an ulp and is lost.
computeGain_dB(source_dB, target_dB) ==
  LET d == target_dB.db - source_dB.db
  IN IF d # 0 THEN [db |-> d, eps |-> 0]
     ELSE [db |-> 0, eps |-> target_dB.eps - source_dB.eps]

\* std::pow(10., gain_dB / 20.): an exponent of eps size gives exactly 1.0.
dB_to_mult(gain_dB) == RoundDouble(gain_dB.db)

xform_properties(props) ==
  LET loudness_normalizing_gain_db ==
        computeGain_dB(props.integrated_loudness_lufs, props.target_level_lufs)
      volume == dB_to_mult(loudness_normalizing_gain_db)
  IN [volume |-> volume, passthrough |-> (volume = neutral_volume)]

\* bool operator==(const XFormedProperties &, const XFormedProperties &),
\* over the members the struct has: volume and passthrough.
XFormedEq(lhs, rhs) ==
  lhs.volume = rhs.volume /\ lhs.passthrough = rhs.passthrough

\* ---- buffers ------------------------------------------------------------

\* Sample k of a delivered buffer: samples differ from one another, are
\* non-zero and within the nominal range [-1, 1] of float PCM.
InSample(k) == Fin(-10 * k)

\* The buffers the pipeline delivers while the stream format is fmt.
Buffers(fmt) ==
  {[gap |-> g, fmt |-> fmt, data |-> [k \in 1..n |-> InSample(k)]] :
     g \in BOOLEAN, n \in 1..MaxSamples}

NoBuffer == [gap |-> FALSE, fmt |-> NoFormat, data |-> <<>>]

n_bytes(buf) == Len(buf.data) * Width(buf.fmt)

\* memset(map.data, 0, map.size)
ZeroFill(buf) == [buf EXCEPT !.data = [c \in 1..Len(buf.data) |-> Zero]]

\* Mutant of num_samples: the sample count taken with sizeof(gdouble) for
\* every kernel.
num_samples_sizeof_double(kernel, buf) == n_bytes(buf) \div 8

\* num_samples = n_bytes / sizeof(T)
num_samples(kernel, buf) == n_bytes(buf) \div SizeofT(kernel)

\* One iteration of the loop of process<T>: *data++ *= vol on sample i
\* (from 0) of the buffer read as an array of T.
process_sample(kernel, buf, i, vol) ==
  LET w == SizeofT(kernel)
      cw == Width(buf.fmt)
      touched == {c \in 1..Len(buf.data) :
                    (c - 1) * cw < (i + 1) * w /\ c * cw > i * w}
  IN [buf EXCEPT !.data =
        [c \in 1..Len(buf.data) |->
           IF c \in touched
           THEN IF buf.fmt = kernel THEN Mul(kernel, buf.data[c], vol)
                ELSE Garbage
           ELSE buf.data[c]]]

TiDone(flow_ret, buf, err) ==
  [next |-> "ti_done", flow |-> flow_ret, buf |-> buf, err |-> err]

TiKernel(cp, buf) ==
  IF cp.process = NoKernel
  THEN [next |-> "aborted", flow |-> "NONE", buf |-> buf, err |-> "NONE"]
  ELSE [next |-> "kernel", flow |-> "NONE", buf |-> buf, err |-> "NONE"]

\* Mutant of transform_ip_entry: the gap test ahead of the negotiated test.
transform_ip_entry_gap_first(cp, buf) ==
  IF buf.gap THEN TiDone("OK", buf, "NONE")
  ELSE IF ~cp.negotiated
  THEN TiDone("NOT_NEGOTIATED", buf, "No format was negotiated")
  ELSE IF cp.p.volume = mute_volume
  THEN TiDone("OK", [ZeroFill(buf) EXCEPT !.gap = TRUE], "NONE")
  ELSE IF cp.p.volume # neutral_volume THEN TiKernel(cp, buf)
  ELSE TiDone("OK", buf, "NONE")

\* Mutant of transform_ip_entry: the mute test ahead of the gap test.
transform_ip_entry_mute_first(cp, buf) ==
  IF ~cp.negotiated
  THEN TiDone("NOT_NEGOTIATED", buf, "No format was negotiated")
  ELSE IF cp.p.volume = mute_volume
  THEN TiDone("OK", [ZeroFill(buf) EXCEPT !.gap = TRUE], "NONE")
  ELSE IF buf.gap THEN TiDone("OK", buf, "NONE")
  ELSE IF cp.p.volume # neutral_volume THEN TiKernel(cp, buf)
  ELSE TiDone("OK", buf, "NONE")

\* Mutant of transform_ip_entry: no mute branch, a zero volume goes through
\* the kernel like any other.
transform_ip_entry_no_mute(cp, buf) ==
  IF ~cp.negotiated
  THEN TiDone("NOT_NEGOTIATED", buf, "No format was negotiated")
  ELSE IF buf.gap THEN TiDone("OK", buf, "NONE")
  ELSE IF cp.p.volume # neutral_volume THEN TiKernel(cp, buf)
  ELSE TiDone("OK", buf, "NONE")

\* Mutant of transform_ip_entry: mute_volume and neutral_volume swapped.
transform_ip_entry_swapped(cp, buf) ==
  IF ~cp.negotiated
  THEN TiDone("NOT_NEGOTIATED", buf, "No format was negotiated")
  ELSE IF buf.gap THEN TiDone("OK", buf, "NONE")
  ELSE IF cp.p.volume = neutral_volume
  THEN TiDone("OK", [ZeroFill(buf) EXCEPT !.gap = TRUE], "NONE")
  ELSE IF cp.p.volume # mute_volume THEN TiKernel(cp, buf)
  ELSE TiDone("OK", buf, "NONE")

\* Mutant of transform_ip_entry: a gap buffer leaves with the flag cleared.
transform_ip_entry_gap_cleared(cp, buf) ==
  IF ~cp.negotiated
  THEN TiDone("NOT_NEGOTIATED", buf, "No format was negotiated")
  ELSE IF buf.gap THEN TiDone("OK", [buf EXCEPT !.gap = FALSE], "NONE")
  ELSE IF cp.p.volume = mute_volume
  THEN TiDone("OK", [ZeroFill(buf) EXCEPT !.gap = TRUE], "NONE")
  ELSE IF cp.p.volume # neutral_volume THEN TiKernel(cp, buf)
  ELSE TiDone("OK", buf, "NONE")

\* transform_ip up to the call of the kernel: what it returns, or that it
\* goes on into committed_params.process.
transform_ip_entry(cp, buf) ==
  IF ~cp.negotiated
  THEN TiDone("NOT_NEGOTIATED", buf, "No format was negotiated")
  ELSE IF buf.gap THEN TiDone("OK", buf, "NONE")
  ELSE IF cp.p.volume = mute_volume
  THEN TiDone("OK", [ZeroFill(buf) EXCEPT !.gap = TRUE], "NONE")
  ELSE IF cp.p.volume # neutral_volume THEN TiKernel(cp, buf)
  ELSE TiDone("OK", buf, "NONE")

\* Mutant of select_process: the F64 case is missing from the switch.
select_process_no_f64(fmt) ==
  CASE fmt = "F32" -> "F32"
    [] OTHER -> NoKernel

\* The switch of commit_params on GST_AUDIO_INFO_FORMAT(info).
select_process(fmt) ==
  CASE fmt = "F32" -> "F32"
    [] fmt = "F64" -> "F64"
    [] OTHER -> NoKernel

\* ---- capabilities -------------------------------------------------------

AnyCaps == Formats
NullCaps == {"NULL"}

\* Mutant of template_caps: the float-only caps whatever the snapshot says.
template_caps_process_only(passthrough) == FloatFormats

template_caps(passthrough) == IF passthrough THEN AnyCaps ELSE FloatFormats

sink_getcaps(xp, downstream_caps, filter) ==
  LET sink_template_caps == template_caps(xp.passthrough)
      sink_caps1 == IF downstream_caps # NullCaps
                    THEN sink_template_caps \cap downstream_caps
                    ELSE sink_template_caps
  IN IF filter # NullCaps THEN sink_caps1 \cap filter ELSE sink_caps1

\* ---- lyrics provider: replies ---------------------------------------------

\* Addresses network_->get can return a QNetworkReply at; an address is
\* free again once the object that was there has been deleted.
MaxReplies == 2
\* Searches the fetcher starts on one provider.
MaxSearches == 3
\* Calls of the connected lambda that can wait for one reply at a time.
MaxPosted == 2

Replies == 1..MaxReplies
SearchIds == 1..MaxSearches

\* What HandleSearchReply finds in a finished reply: a network error, a
\* status other than 200, a document without a matching lyric, or results.
Outcomes == {"error", "http", "empty", "results"}

NoReplyObj == [state |-> "free", id |-> 0, outcome |-> "none",
               delete_later |-> FALSE]

\* QList::contains and QList::removeAll
Contains(list, x) == \E i \in 1..Len(list) : list[i] = x
RemoveAll(list, x) == SelectSeq(list, LAMBDA e : e # x)

\* reply->abort(): a running reply finishes with an error.
Abort(obj) ==
  IF obj.state = "running"
  THEN [obj EXCEPT !.state = "finished", !.outcome = "error"]
  ELSE obj

\* The loop of the destructor over replies_: takeFirst, disconnect, abort
\* and deleteLater for each reply.
RECURSIVE DestructorLoop(_, _)
DestructorLoop(replies, objs) ==
  IF replies = <<>> THEN objs
  ELSE LET reply == Head(replies)
       IN DestructorLoop(Tail(replies),
            [objs EXCEPT ![reply] =
               [Abort(objs[reply]) EXCEPT !.delete_later = TRUE]])

\* ---- state --------------------------------------------------------------

VARIABLES
  properties,               \* self->properties
  xformed_properties,       \* self->xformed_properties
  committed_params,         \* self->committed_params
  obj_lock,                 \* GST_OBJECT_LOCK(self) is held
  base_passthrough,         \* gst_base_transform_is_passthrough(base)
  info_fmt,                 \* format of GST_AUDIO_FILTER_INFO(self)
  sink_caps,                \* result of the last caps query on the sink pad
  query_downstream_caps,    \* gst_pad_get_allowed_caps(srcpad) of that query
  query_filter,             \* filter of that query
  provider_alive,           \* the ChartLyricsProvider object exists
  replies_,                 \* ChartLyricsProvider::replies_
  reply_obj,                \* the QNetworkReply object at each address
  connected,                \* replies whose finished signal is connected
  posted,                   \* calls of the connected lambda not yet run
  next_id,                  \* id of the next search
  search_finished,          \* SearchFinished emissions, per search id
  delivered,                \* ids whose lambda has run at least once
  cancelled,                \* replies whose id CancelSearch was called with
  pending_at_destruction,   \* ids of the replies the destructor found
  reconfigure_pending,      \* gst_base_transform_reconfigure_sink was raised
  invalid_warned,           \* the running set_property emitted G_OBJECT_WARN_INVALID_PROPERTY_ID
  set_pc,                   \* position of the control thread in set_property
  set_prop_id, set_value,   \* arguments of the running set_property
  new_xformed_properties,   \* local of set_property
  should_reconfigure_sink,  \* local of set_property
  pc,                       \* position of the streaming thread
  cp_caller, cp_fmt,        \* who called commit_params, and its info
  bt_volume,                \* volume read by the comparison of before_transform
  outbuf,                   \* the buffer being handled
  inbuf0,                   \* the same buffer as the pipeline delivered it
  kernel_i, kernel_vol,     \* i and vol of process<T>
  kernel_used,              \* kernel invoked by the running transform_ip
  flow,                     \* value returned by transform_ip
  element_error,            \* GST_ELEMENT_ERROR posted by the running call
  setup_result, setup_fmt,  \* what the last setup returned, and for which format
  produced,                 \* every snapshot some set_property call derived
  quiet,                    \* no set_property step since before_transform began
  bt_committed,             \* the running before_transform called commit_params
  clean_commits             \* commits of quiet before_transform calls since the last setter step

ctrlVars == <<properties, xformed_properties, obj_lock, reconfigure_pending,
              invalid_warned, set_pc, set_prop_id, set_value,
              new_xformed_properties, should_reconfigure_sink, produced>>
streamVars == <<committed_params, base_passthrough, info_fmt, pc, cp_caller,
                cp_fmt, bt_volume, outbuf, inbuf0, kernel_i, kernel_vol,
                kernel_used, flow, element_error, setup_result, setup_fmt,
                bt_committed>>
queryVars == <<query_downstream_caps, query_filter>>
elementVars == <<properties, xformed_properties, committed_params, obj_lock,
                 base_passthrough, info_fmt, sink_caps, query_downstream_caps,
                 query_filter, reconfigure_pending,
                 invalid_warned, set_pc, set_prop_id, set_value,
                 new_xformed_properties, should_reconfigure_sink, pc,
                 cp_caller, cp_fmt, bt_volume, outbuf, inbuf0, kernel_i,
                 kernel_vol, kernel_used, flow, element_error, setup_result,
                 setup_fmt, produced, quiet, bt_committed, clean_commits>>
lyricsVars == <<provider_alive, replies_, reply_obj, connected, posted,
                next_id, search_finished, delivered, cancelled,
                pending_at_destruction>>
vars == <<elementVars, lyricsVars>>

\* enum class Properties
IntegratedLoudness == 1
TargetLevel == 2
InvalidPropId == 3
PropIds == {IntegratedLoudness, TargetLevel, InvalidPropId}

\* Values the control thread writes.
LoudnessValues == {Lufs(-23), Lufs(-17)}
TargetValues == {Lufs(-23), Lufs(-17), Lufs(-7000)}
SetValues(prop_id) ==
  IF prop_id = IntegratedLoudness THEN LoudnessValues ELSE TargetValues

\* Downstream caps and query filters of a caps query.
CapsArgs == {NullCaps}

InitialXFormed == [volume |-> neutral_volume, passthrough |-> TRUE]

\* ebur128control_init; the base class starts with passthrough off because
\* the class has a transform_ip, and the audio info starts unset.
ebur128control_init ==
  /\ properties = [integrated_loudness_lufs |-> Lufs(DefaultLufsDb),
                   target_level_lufs |-> Lufs(DefaultLufsDb)]
  /\ xformed_properties = InitialXFormed
  /\ committed_params = [p |-> InitialXFormed, process |-> NoKernel,
                         negotiated |-> FALSE]
  /\ obj_lock = FALSE
  /\ base_passthrough = FALSE
  /\ info_fmt = NoFormat
  /\ sink_caps = template_caps(TRUE)
  /\ reconfigure_pending = FALSE
  /\ invalid_warned = FALSE

\* ChartLyricsProvider::ChartLyricsProvider: no replies, nothing emitted.
ChartLyricsProvider_init ==
  /\ provider_alive = TRUE
  /\ replies_ = <<>>
  /\ reply_obj = [r \in Replies |-> NoReplyObj]
  /\ connected = {}
  /\ posted = [r \in Replies |-> 0]
  /\ next_id = 1
  /\ search_finished = [id \in SearchIds |-> 0]
  /\ delivered = {}
  /\ cancelled = {}
  /\ pending_at_destruction = {}

\* The threads at rest, no call running; the caps of the sink pad as a
\* query without downstream caps and filter reported them.
InitRest ==
  /\ ChartLyricsProvider_init
  /\ query_downstream_caps = NullCaps
  /\ query_filter = NullCaps
  /\ set_pc = "idle"
  /\ set_prop_id = 0
  /\ set_value = Lufs(0)
  /\ new_xformed_properties = InitialXFormed
  /\ should_reconfigure_sink = FALSE
  /\ pc = "idle"
  /\ cp_caller = "none"
  /\ cp_fmt = NoFormat
  /\ bt_volume = neutral_volume
  /\ outbuf = NoBuffer
  /\ inbuf0 = NoBuffer
  /\ kernel_i = 0
  /\ kernel_vol = neutral_volume
  /\ kernel_used = NoKernel
  /\ flow = "NONE"
  /\ element_error = "NONE"
  /\ setup_result = "NONE"
  /\ setup_fmt = NoFormat
  /\ produced = {InitialXFormed}
  /\ quiet = TRUE
  /\ bt_committed = FALSE
  /\ clean_commits = 0

Init == ebur128control_init /\ InitRest

\* ---- control thread: set_property ---------------------------------------
\* The struct assignment at the end of set_property is two stores and the
\* copies on the streaming thread are two loads, each one step.  The
\* streaming thread takes no lock, so its loads fall anywhere between the
\* stores: every mix of old and new members is a possible result.

\* Any step of set_property ends the quiet period of the streaming thread.
SetterStep ==
  /\ quiet' = IF outbuf # NoBuffer THEN FALSE ELSE quiet
  /\ clean_commits' = 0

\* GST_OBJECT_LOCK(self)
set_property_lock(prop_id, value) ==
  /\ pc # "aborted"
  /\ set_pc = "idle"
  /\ ~obj_lock
  /\ obj_lock' = TRUE
  /\ set_prop_id' = prop_id
  /\ set_value' = value
  /\ set_pc' = "switch"
  /\ SetterStep
  /\ UNCHANGED <<properties, xformed_properties, reconfigure_pending,
                 invalid_warned, new_xformed_properties,
                 should_reconfigure_sink, produced, sink_caps>>
  /\ UNCHANGED streamVars
  /\ UNCHANGED queryVars
  /\ UNCHANGED lyricsVars

\* The switch on prop_id, and for a known id the call of xform_properties
\* and the computation of should_reconfigure_sink.
set_property_switch ==
  /\ pc # "aborted"
  /\ set_pc = "switch"
  /\ IF set_prop_id \in {IntegratedLoudness, TargetLevel}
     THEN /\ properties' =
               IF set_prop_id = IntegratedLoudness
               THEN [properties EXCEPT !.integrated_loudness_lufs = set_value]
               ELSE [properties EXCEPT !.target_level_lufs = set_value]
          /\ new_xformed_properties' = xform_properties(properties')
          /\ should_reconfigure_sink' =
               (new_xformed_properties'.passthrough # xformed_properties.passthrough)
          /\ produced' = produced \cup {new_xformed_properties'}
          /\ set_pc' = "store_volume"
          /\ UNCHANGED <<obj_lock, invalid_warned>>
     ELSE /\ invalid_warned' = TRUE
          /\ set_pc' = "unlock_invalid"
          /\ UNCHANGED <<properties, obj_lock, new_xformed_properties,
                         should_reconfigure_sink, produced>>
  /\ set_prop_id' = 0
  /\ set_value' = Lufs(0)
  /\ SetterStep
  /\ UNCHANGED <<xformed_properties, reconfigure_pending, sink_caps>>
  /\ UNCHANGED streamVars
  /\ UNCHANGED queryVars
  /\ UNCHANGED lyricsVars

\* Mutant of set_property_store_volume: the setter also writes the new
\* volume into the committed parameters.
set_property_store_volume_committed ==
  /\ pc # "aborted"
  /\ set_pc = "store_volume"
  /\ xformed_properties' =
       [xformed_properties EXCEPT !.volume = new_xformed_properties.volume]
  /\ committed_params' =
       [committed_params EXCEPT !.p.volume = new_xformed_properties.volume]
  /\ set_pc' = "store_passthrough"
  /\ SetterStep
  /\ UNCHANGED <<properties, obj_lock, reconfigure_pending, invalid_warned,
                 set_prop_id, set_value, new_xformed_properties,
                 should_reconfigure_sink, produced, sink_caps>>
  /\ UNCHANGED <<base_passthrough, info_fmt, pc, cp_caller, cp_fmt, bt_volume,
                 outbuf, inbuf0, kernel_i, kernel_vol, kernel_used, flow,
                 element_error, setup_result, setup_fmt, bt_committed>>
  /\ UNCHANGED queryVars
  /\ UNCHANGED lyricsVars

\* self->xformed_properties = new_xformed_properties, first member
set_property_store_volume ==
  /\ pc # "aborted"
  /\ set_pc = "store_volume"
  /\ xformed_properties' =
       [xformed_properties EXCEPT !.volume = new_xformed_properties.volume]
  /\ set_pc' = "store_passthrough"
  /\ SetterStep
  /\ UNCHANGED <<properties, obj_lock, reconfigure_pending, invalid_warned,
                 set_prop_id, set_value, new_xformed_properties,
                 should_reconfigure_sink, produced, sink_caps>>
  /\ UNCHANGED streamVars
  /\ UNCHANGED queryVars
  /\ UNCHANGED lyricsVars

\* Mutant of set_property_store_passthrough: the passthrough member of the
\* retained snapshot is left as it was.
set_property_store_passthrough_skipped ==
  /\ pc # "aborted"
  /\ set_pc = "store_passthrough"
  /\ set_pc' = "unlock"
  /\ SetterStep
  /\ UNCHANGED <<properties, xformed_properties, obj_lock,
                 reconfigure_pending, invalid_warned, set_prop_id, set_value,
                 new_xformed_properties, should_reconfigure_sink, produced,
                 sink_caps>>
  /\ UNCHANGED streamVars
  /\ UNCHANGED queryVars
  /\ UNCHANGED lyricsVars

\* self->xformed_properties = new_xformed_properties, second member
set_property_store_passthrough ==
  /\ pc # "aborted"
  /\ set_pc = "store_passthrough"
  /\ xformed_properties' =
       [xformed_properties EXCEPT !.passthrough = new_xformed_properties.passthrough]
  /\ set_pc' = "unlock"
  /\ SetterStep
  /\ UNCHANGED <<properties, obj_lock, reconfigure_pending, invalid_warned,
                 set_prop_id, set_value, new_xformed_properties,
                 should_reconfigure_sink, produced, sink_caps>>
  /\ UNCHANGED streamVars
  /\ UNCHANGED queryVars
  /\ UNCHANGED lyricsVars

\* GST_OBJECT_UNLOCK(self); return, in the default branch of the switch
set_property_unlock_invalid ==
  /\ pc # "aborted"
  /\ set_pc = "unlock_invalid"
  /\ obj_lock' = FALSE
  /\ invalid_warned' = FALSE
  /\ set_pc' = "idle"
  /\ SetterStep
  /\ UNCHANGED <<properties, xformed_properties, reconfigure_pending,
                 set_prop_id, set_value, new_xformed_properties,
                 should_reconfigure_sink, produced, sink_caps>>
  /\ UNCHANGED streamVars
  /\ UNCHANGED queryVars
  /\ UNCHANGED lyricsVars

\* GST_OBJECT_UNLOCK(self)
set_property_unlock ==
  /\ pc # "aborted"
  /\ set_pc = "unlock"
  /\ obj_lock' = FALSE
  /\ set_pc' = "reconfigure"
  /\ SetterStep
  /\ UNCHANGED <<properties, xformed_properties, reconfigure_pending,
                 invalid_warned, set_prop_id, set_value,
                 new_xformed_properties, should_reconfigure_sink, produced,
                 sink_caps>>
  /\ UNCHANGED streamVars
  /\ UNCHANGED queryVars
  /\ UNCHANGED lyricsVars

\* Mutant of set_property_reconfigure: the signal is raised by every call.
set_property_reconfigure_always ==
  /\ pc # "aborted"
  /\ set_pc = "reconfigure"
  /\ reconfigure_pending' = TRUE
  /\ should_reconfigure_sink' = FALSE
  /\ new_xformed_properties' = InitialXFormed
  /\ set_pc' = "idle"
  /\ SetterStep
  /\ UNCHANGED <<properties, xformed_properties, obj_lock, invalid_warned,
                 set_prop_id, set_value, produced, sink_caps>>
  /\ UNCHANGED streamVars
  /\ UNCHANGED queryVars
  /\ UNCHANGED lyricsVars

\* if (should_reconfigure_sink) gst_base_transform_reconfigure_sink(...)
set_property_reconfigure ==
  /\ pc # "aborted"
  /\ set_pc = "reconfigure"
  /\ reconfigure_pending' = (reconfigure_pending \/ should_reconfigure_sink)
  /\ should_reconfigure_sink' = FALSE
  /\ new_xformed_properties' = InitialXFormed
  /\ set_pc' = "idle"
  /\ SetterStep
  /\ UNCHANGED <<properties, xformed_properties, obj_lock, invalid_warned,
                 set_prop_id, set_value, produced, sink_caps>>
  /\ UNCHANGED streamVars
  /\ UNCHANGED queryVars
  /\ UNCHANGED lyricsVars

\* ---- caps query on the sink pad -----------------------------------------

sink_query_caps(downstream_caps, filter) ==
  /\ pc # "aborted"
  /\ sink_caps' = sink_getcaps(xformed_properties, downstream_caps, filter)
  /\ query_downstream_caps' = downstream_caps
  /\ query_filter' = filter
  /\ reconfigure_pending' = FALSE
  /\ UNCHANGED <<properties, xformed_properties, obj_lock, invalid_warned,
                 set_pc, set_prop_id, set_value, new_xformed_properties,
                 should_reconfigure_sink, produced, quiet, clean_commits>>
  /\ UNCHANGED streamVars
  /\ UNCHANGED lyricsVars

\* ---- streaming thread ---------------------------------------------------

\* Mutant of XFormedNeq: only the passthrough members are compared.
XFormedNeq_passthrough_only(lhs, rhs) == lhs.passthrough # rhs.passthrough

\* Mutant of XFormedNeq: the snapshots always count as different.
XFormedNeq_always(lhs, rhs) == TRUE

\* bool operator!=(const XFormedProperties &, const XFormedProperties &)
XFormedNeq(lhs, rhs) == ~XFormedEq(lhs, rhs)

\* What commit_params derives from the snapshot it copied and the format of
\* info: the kernel, and whether the assertion of the default branch holds.
commit_select(p, fmt) ==
  LET process == select_process(fmt)
  IN [process |-> process,
      assert_ok |-> (process # NoKernel \/ p.passthrough)]

\* The pipeline hands over a buffer: before_transform reads the volume of
\* the latest snapshot for its comparison.
before_transform_read_volume(buffer) ==
  /\ pc = "idle"
  /\ outbuf' = buffer
  /\ inbuf0' = buffer
  /\ bt_volume' = xformed_properties.volume
  /\ pc' = "bt_compare"
  /\ quiet' = (set_pc = "idle")
  /\ bt_committed' = FALSE
  /\ setup_result' = "NONE"
  /\ setup_fmt' = NoFormat
  /\ element_error' = "NONE"
  /\ UNCHANGED <<committed_params, base_passthrough, info_fmt, cp_caller,
                 cp_fmt, kernel_i, kernel_vol, kernel_used, flow,
                 clean_commits, sink_caps>>
  /\ UNCHANGED ctrlVars
  /\ UNCHANGED queryVars
  /\ UNCHANGED lyricsVars

\* if (self->committed_params.p != self->xformed_properties) commit_params(...)
before_transform_compare ==
  /\ pc = "bt_compare"
  /\ LET latest == [volume |-> bt_volume,
                    passthrough |-> xformed_properties.passthrough]
     IN IF XFormedNeq(committed_params.p, latest)
        THEN /\ pc' = "cp_begin"
             /\ cp_caller' = "before_transform"
             /\ cp_fmt' = info_fmt
             /\ bt_committed' = TRUE
             /\ clean_commits' =
                  IF quiet /\ clean_commits < 2 THEN clean_commits + 1
                  ELSE clean_commits
        ELSE /\ pc' = "bt_done"
             /\ UNCHANGED <<cp_caller, cp_fmt, bt_committed, clean_commits>>
  /\ bt_volume' = neutral_volume
  /\ UNCHANGED <<committed_params, base_passthrough, info_fmt, outbuf, inbuf0,
                 kernel_i, kernel_vol, kernel_used, flow, element_error,
                 setup_result, setup_fmt, quiet, sink_caps>>
  /\ UNCHANGED ctrlVars
  /\ UNCHANGED queryVars
  /\ UNCHANGED lyricsVars

\* The pipeline negotiated a format the last caps query allowed: setup(info).
setup_begin(fmt) ==
  /\ pc = "idle"
  /\ fmt \in sink_caps
  /\ pc' = "cp_begin"
  /\ cp_caller' = "setup"
  /\ cp_fmt' = fmt
  /\ setup_result' = "NONE"
  /\ setup_fmt' = NoFormat
  /\ element_error' = "NONE"
  /\ UNCHANGED <<committed_params, base_passthrough, info_fmt, bt_volume,
                 outbuf, inbuf0, kernel_i, kernel_vol, kernel_used, flow,
                 bt_committed, quiet, clean_commits, sink_caps>>
  /\ UNCHANGED ctrlVars
  /\ UNCHANGED queryVars
  /\ UNCHANGED lyricsVars

\* commit_params up to the copy of the first member of xformed_properties.
commit_params_begin ==
  /\ pc = "cp_begin"
  /\ committed_params' =
       [p |-> [committed_params.p EXCEPT !.volume = xformed_properties.volume],
        process |-> NoKernel,
        negotiated |-> FALSE]
  /\ pc' = "cp_copy_passthrough"
  /\ UNCHANGED <<base_passthrough, info_fmt, cp_caller, cp_fmt, bt_volume,
                 outbuf, inbuf0, kernel_i, kernel_vol, kernel_used, flow,
                 element_error, setup_result, setup_fmt, bt_committed, quiet,
                 clean_commits, sink_caps>>
  /\ UNCHANGED ctrlVars
  /\ UNCHANGED queryVars
  /\ UNCHANGED lyricsVars

\* The rest of commit_params: the copy of the second member,
\* gst_base_transform_set_passthrough, the switch and negotiated = true.
\* A failed g_assert aborts the process.
commit_params_finish ==
  /\ pc = "cp_copy_passthrough"
  /\ LET p == [committed_params.p EXCEPT
                 !.passthrough = xformed_properties.passthrough]
         sel == commit_select(p, cp_fmt)
     IN /\ committed_params' = [p |-> p, process |-> sel.process,
                                negotiated |-> sel.assert_ok]
        /\ base_passthrough' = p.passthrough
        /\ pc' = IF ~sel.assert_ok THEN "aborted"
                 ELSE IF cp_caller = "setup" THEN "setup_return"
                 ELSE "bt_done"
  /\ UNCHANGED <<info_fmt, cp_caller, cp_fmt, bt_volume, outbuf, inbuf0,
                 kernel_i, kernel_vol, kernel_used, flow, element_error,
                 setup_result, setup_fmt, bt_committed, quiet, clean_commits,
                 sink_caps>>
  /\ UNCHANGED ctrlVars
  /\ UNCHANGED queryVars
  /\ UNCHANGED lyricsVars

\* setup after commit_params; on TRUE the audio filter keeps info.
setup_return ==
  /\ pc = "setup_return"
  /\ element_error' = IF ~committed_params.negotiated
                      THEN "Invalid incoming format" ELSE "NONE"
  /\ setup_result' = IF committed_params.negotiated THEN "ACCEPT" ELSE "REJECT"
  /\ setup_fmt' = cp_fmt
  /\ info_fmt' = IF committed_params.negotiated THEN cp_fmt ELSE info_fmt
  /\ cp_caller' = "none"
  /\ cp_fmt' = NoFormat
  /\ pc' = "idle"
  /\ UNCHANGED <<committed_params, base_passthrough, bt_volume, outbuf, inbuf0,
                 kernel_i, kernel_vol, kernel_used, flow, bt_committed, quiet,
                 clean_commits, sink_caps>>
  /\ UNCHANGED ctrlVars
  /\ UNCHANGED queryVars
  /\ UNCHANGED lyricsVars

\* Mutant of transform_ip_on_passthrough: the class asks for transform_ip
\* in passthrough mode too.
transform_ip_on_passthrough_true == TRUE

\* trans_class->transform_ip_on_passthrough
transform_ip_on_passthrough == FALSE

\* In passthrough mode the pipeline pushes the buffer on without calling
\* transform_ip (transform_ip_on_passthrough = false).
push_passthrough ==
  /\ pc = "bt_done"
  /\ base_passthrough /\ ~transform_ip_on_passthrough
  /\ pc' = "idle"
  /\ outbuf' = NoBuffer
  /\ inbuf0' = NoBuffer
  /\ cp_caller' = "none"
  /\ cp_fmt' = NoFormat
  /\ bt_committed' = FALSE
  /\ quiet' = TRUE
  /\ UNCHANGED <<committed_params, base_passthrough, info_fmt, bt_volume,
                 kernel_i, kernel_vol, kernel_used, flow, element_error,
                 setup_result, setup_fmt, clean_commits, sink_caps>>
  /\ UNCHANGED ctrlVars
  /\ UNCHANGED queryVars
  /\ UNCHANGED lyricsVars

\* transform_ip up to its return or to the call of the kernel.  Its first
\* statement is g_assert(!gst_base_transform_is_passthrough(base)).
transform_ip ==
  /\ pc = "bt_done"
  /\ ~base_passthrough \/ transform_ip_on_passthrough
  /\ LET r == IF base_passthrough
              THEN [next |-> "aborted", flow |-> "NONE", buf |-> outbuf,
                    err |-> "NONE"]
              ELSE transform_ip_entry(committed_params, outbuf)
     IN /\ pc' = r.next
        /\ flow' = r.flow
        /\ outbuf' = r.buf
        /\ element_error' = r.err
        /\ IF r.next = "kernel"
           THEN /\ kernel_i' = 0
                /\ kernel_vol' = ToT(committed_params.process,
                                     committed_params.p.volume)
                /\ kernel_used' = committed_params.process
           ELSE UNCHANGED <<kernel_i, kernel_vol, kernel_used>>
  /\ UNCHANGED <<committed_params, base_passthrough, info_fmt, cp_caller,
                 cp_fmt, bt_volume, inbuf0, setup_result, setup_fmt,
                 bt_committed, quiet, clean_commits, sink_caps>>
  /\ UNCHANGED ctrlVars
  /\ UNCHANGED queryVars
  /\ UNCHANGED lyricsVars

\* One pass through the loop header of process<T>.
process ==
  /\ pc = "kernel"
  /\ IF kernel_i # num_samples(kernel_used, outbuf)
     THEN /\ outbuf' = process_sample(kernel_used, outbuf, kernel_i, kernel_vol)
          /\ kernel_i' = kernel_i + 1
          /\ UNCHANGED <<pc, flow, kernel_vol>>
     ELSE /\ pc' = "ti_done"
          /\ flow' = "OK"
          /\ kernel_i' = 0
          /\ kernel_vol' = neutral_volume
          /\ UNCHANGED outbuf
  /\ UNCHANGED <<committed_params, base_passthrough, info_fmt, cp_caller,
                 cp_fmt, bt_volume, inbuf0, kernel_used, element_error,
                 setup_result, setup_fmt, bt_committed, quiet, clean_commits,
                 sink_caps>>
  /\ UNCHANGED ctrlVars
  /\ UNCHANGED queryVars
  /\ UNCHANGED lyricsVars

\* transform_ip has returned; the pipeline takes the buffer.
transform_ip_return ==
  /\ pc = "ti_done"
  /\ pc' = "idle"
  /\ outbuf' = NoBuffer
  /\ inbuf0' = NoBuffer
  /\ flow' = "NONE"
  /\ element_error' = "NONE"
  /\ kernel_used' = NoKernel
  /\ cp_caller' = "none"
  /\ cp_fmt' = NoFormat
  /\ bt_committed' = FALSE
  /\ quiet' = TRUE
  /\ UNCHANGED <<committed_params, base_passthrough, info_fmt, bt_volume,
                 kernel_i, kernel_vol, setup_result, setup_fmt, clean_commits,
                 sink_caps>>
  /\ UNCHANGED ctrlVars
  /\ UNCHANGED queryVars
  /\ UNCHANGED lyricsVars

\* ---- lyrics provider ------------------------------------------------------
\* The provider, its replies and the network manager live in one thread.  A
\* call of the lambda connected to QNetworkReply::finished may wait in the
\* event queue; it is then ahead of the deferred delete of its reply, and
\* the destruction of the provider drops the calls still waiting for it.

\* StartSearch(id, request): network_->get(req) returns a new reply at a
\* free address, the reply is appended to replies_ and its finished signal
\* connected.
StartSearch(id) ==
  /\ provider_alive
  /\ id = next_id
  /\ id \in SearchIds
  /\ \E reply \in Replies :
       /\ reply_obj[reply].state = "free"
       /\ reply_obj' = [reply_obj EXCEPT ![reply] =
                          [state |-> "running", id |-> id,
                           outcome |-> "none", delete_later |-> FALSE]]
       /\ replies_' = Append(replies_, reply)
       /\ connected' = connected \cup {reply}
  /\ next_id' = next_id + 1
  /\ UNCHANGED <<provider_alive, posted, search_finished, delivered,
                 cancelled, pending_at_destruction>>
  /\ UNCHANGED elementVars

\* CancelSearch(id): the body is empty.
CancelSearch(id) ==
  /\ provider_alive
  /\ \E reply \in Replies :
       /\ reply_obj[reply].id = id
       /\ reply \notin cancelled
       /\ cancelled' = cancelled \cup {reply}
  /\ UNCHANGED <<provider_alive, replies_, reply_obj, connected, posted,
                 next_id, search_finished, delivered, pending_at_destruction>>
  /\ UNCHANGED elementVars

\* The reply emits finished, for the first time with the outcome of the
\* request or once more: a connected lambda is called.
QNetworkReply_finished(reply, outcome) ==
  /\ reply_obj[reply].state \in {"running", "finished"}
  /\ reply_obj[reply].state = "finished" => outcome = reply_obj[reply].outcome
  /\ reply \in connected
  /\ posted[reply] < MaxPosted
  /\ reply_obj' = [reply_obj EXCEPT ![reply].state = "finished",
                                    ![reply].outcome = outcome]
  /\ posted' = [posted EXCEPT ![reply] = @ + 1]
  /\ UNCHANGED <<provider_alive, replies_, connected, next_id,
                 search_finished, delivered, cancelled,
                 pending_at_destruction>>
  /\ UNCHANGED elementVars

\* Mutant of HandleSearchReply: the reply is left in replies_.
HandleSearchReply_keeps_reply(reply) ==
  /\ provider_alive
  /\ posted[reply] > 0
  /\ posted' = [posted EXCEPT ![reply] = @ - 1]
  /\ LET id == reply_obj[reply].id
     IN /\ delivered' = delivered \cup {id}
        /\ IF ~Contains(replies_, reply)
           THEN UNCHANGED <<replies_, connected, reply_obj, search_finished>>
           ELSE /\ UNCHANGED replies_
                /\ connected' = connected \ {reply}
                /\ reply_obj' = [reply_obj EXCEPT ![reply].delete_later = TRUE]
                /\ search_finished' = [search_finished EXCEPT ![id] = @ + 1]
  /\ UNCHANGED <<provider_alive, next_id, cancelled, pending_at_destruction>>
  /\ UNCHANGED elementVars

\* The lambda [this, reply, id, request] runs: HandleSearchReply(reply, id,
\* request).  Every path past the first line emits SearchFinished(id), with
\* or without results.
HandleSearchReply(reply) ==
  /\ provider_alive
  /\ posted[reply] > 0
  /\ posted' = [posted EXCEPT ![reply] = @ - 1]
  /\ LET id == reply_obj[reply].id
     IN /\ delivered' = delivered \cup {id}
        /\ IF ~Contains(replies_, reply)
           THEN UNCHANGED <<replies_, connected, reply_obj, search_finished>>
           ELSE /\ replies_' = RemoveAll(replies_, reply)
                /\ connected' = connected \ {reply}
                /\ reply_obj' = [reply_obj EXCEPT ![reply].delete_later = TRUE]
                /\ search_finished' = [search_finished EXCEPT ![id] = @ + 1]
  /\ UNCHANGED <<provider_alive, next_id, cancelled, pending_at_destruction>>
  /\ UNCHANGED elementVars

\* The event loop runs the deferred delete of a reply; its address is free.
DeferredDelete(reply) ==
  /\ reply_obj[reply].delete_later
  /\ posted[reply] = 0
  /\ reply_obj' = [reply_obj EXCEPT ![reply] = NoReplyObj]
  /\ cancelled' = cancelled \ {reply}
  /\ UNCHANGED <<provider_alive, replies_, connected, posted, next_id,
                 search_finished, delivered, pending_at_destruction>>
  /\ UNCHANGED elementVars

\* ChartLyricsProvider::~ChartLyricsProvider
Destructor ==
  /\ provider_alive
  /\ provider_alive' = FALSE
  /\ pending_at_destruction' =
       {reply_obj[replies_[i]].id : i \in 1..Len(replies_)}
  /\ reply_obj' = DestructorLoop(replies_, reply_obj)
  /\ replies_' = <<>>
  /\ connected' = {}
  /\ posted' = [r \in Replies |-> 0]
  /\ UNCHANGED <<next_id, search_finished, delivered, cancelled>>
  /\ UNCHANGED elementVars

\* ---- specification ------------------------------------------------------

Next ==
  \/ \E prop_id \in PropIds : \E value \in SetValues(prop_id) :
       set_property_lock(prop_id, value)
  \/ set_property_switch
  \/ set_property_store_volume
  \/ set_property_store_passthrough
  \/ set_property_unlock_invalid
  \/ set_property_unlock
  \/ set_property_reconfigure
  \/ \E downstream_caps \in CapsArgs : \E filter \in CapsArgs :
       sink_query_caps(downstream_caps, filter)
  \/ \E fmt \in Formats : setup_begin(fmt)
  \/ \E buffer \in Buffers(info_fmt) : before_transform_read_volume(buffer)
  \/ before_transform_compare
  \/ commit_params_begin
  \/ commit_params_finish
  \/ setup_return
  \/ push_passthrough
  \/ transform_ip
  \/ process
  \/ transform_ip_return

Spec == Init /\ [][Next]_vars

\* ---- the setter alone ------------------------------------------------------
\* set_property calls with levels over the range of the param specs: equal
\* levels, levels a few dB apart, levels whose difference is below what pow
\* resolves around 1.0, and levels so far apart that pow underflows to 0.0
\* or overflows to +inf.

GainLevels == {Lufs(-23), Lufs(-17), Lufs(-7000), Lufs(7000),
               [db |-> 0, eps |-> 0], [db |-> 0, eps |-> 1]}

NextGain ==
  \/ \E prop_id \in PropIds : \E value \in GainLevels :
       set_property_lock(prop_id, value)
  \/ set_property_switch
  \/ set_property_store_volume
  \/ set_property_store_passthrough
  \/ set_property_unlock_invalid
  \/ set_property_unlock
  \/ set_property_reconfigure

SpecGain == Init /\ [][NextGain]_vars

\* ---- caps queries alone --------------------------------------------------
\* The element at rest with properties the control thread can have written,
\* and every caps query the pipeline can make on it.

CapsInputs == {NullCaps} \cup SUBSET Formats

InitCaps ==
  /\ \E l \in LoudnessValues : \E t \in TargetValues :
       properties = [integrated_loudness_lufs |-> l, target_level_lufs |-> t]
  /\ xformed_properties = xform_properties(properties)
  /\ committed_params = [p |-> InitialXFormed, process |-> NoKernel,
                         negotiated |-> FALSE]
  /\ obj_lock = FALSE
  /\ base_passthrough = FALSE
  /\ info_fmt = NoFormat
  /\ sink_caps = sink_getcaps(xformed_properties, NullCaps, NullCaps)
  /\ reconfigure_pending = FALSE
  /\ invalid_warned = FALSE
  /\ InitRest

NextCaps ==
  \E downstream_caps \in CapsInputs : \E filter \in CapsInputs :
    sink_query_caps(downstream_caps, filter)

SpecCaps == InitCaps /\ [][NextCaps]_vars

TypeOK ==
  /\ pc \in {"idle", "bt_compare", "cp_begin", "cp_copy_passthrough",
             "setup_return", "bt_done", "kernel", "ti_done", "aborted"}
  /\ set_pc \in {"idle", "switch", "store_volume", "store_passthrough",
                 "unlock", "unlock_invalid", "reconfigure"}
  /\ obj_lock \in BOOLEAN
  /\ committed_params.process \in {NoKernel, "F32", "F64"}
  /\ flow \in {"NONE", "OK", "NOT_NEGOTIATED"}

\* ---- the lyrics provider alone -------------------------------------------

NextLyrics ==
  \/ \E id \in SearchIds : StartSearch(id)
  \/ \E id \in SearchIds : CancelSearch(id)
  \/ \E reply \in Replies : \E outcome \in Outcomes :
       QNetworkReply_finished(reply, outcome)
  \/ \E reply \in Replies : HandleSearchReply(reply)
  \/ \E reply \in Replies : DeferredDelete(reply)
  \/ Destructor

SpecLyrics == Init /\ [][NextLyrics]_vars

\* ---- claims -------------------------------------------------------------

StreamInTransform == {"bt_done", "kernel", "ti_done"}

\* C1: the pair commit_params copied into committed_params.p is always a
\* pair that xform_properties produced in one set_property call, or the
\* initial pair; it is never half of one snapshot and half of another.
C1_SnapshotNeverTorn ==
  pc # "cp_copy_passthrough" => committed_params.p \in produced

\* C2: when no set_property step has run since before_transform began for a
\* buffer, the buffer is processed with committed_params.p equal to the
\* snapshot derived from the properties as last written.
C2_WriteTakesEffectNextBuffer ==
  (pc \in StreamInTransform /\ quiet)
    => committed_params.p = xform_properties(properties)

C2_Witness ==
  /\ pc = "ti_done"
  /\ quiet
  /\ flow = "OK"
  /\ properties.target_level_lufs = Lufs(-17)
  /\ committed_params.p = [volume |-> Fin(6), passthrough |-> FALSE]

\* C3: from the start to the end of a transform_ip call, every iteration of
\* the kernel included, no step of either thread changes committed_params.
C3_Step ==
  (pc \in StreamInTransform /\ pc' \in StreamInTransform)
    => committed_params' = committed_params

C3_CommittedStableDuringTransform == [][C3_Step]_vars

C3_Witness ==
  /\ pc = "kernel"
  /\ kernel_i = 1
  /\ set_pc = "store_passthrough"
  /\ xformed_properties.volume # committed_params.p.volume

\* C4: setup rejects a non-float format when the committed gain is not 1.0,
\* leaving negotiated false and posting the negotiation error, and accepts
\* every format at gain 1.0 and F32/F64 at every gain, leaving negotiated
\* true; it never ends in a failed assertion.
C4_NegotiationRejectsNonFloat ==
  /\ ~(pc = "aborted" /\ cp_caller = "setup")
  /\ setup_result # "NONE" =>
       LET float == setup_fmt \in FloatFormats
           unity == committed_params.p.volume = neutral_volume
       IN /\ (~float /\ ~unity) =>
               /\ ~committed_params.negotiated
               /\ setup_result = "REJECT"
               /\ element_error = "Invalid incoming format"
          /\ (float \/ unity) =>
               /\ committed_params.negotiated
               /\ setup_result = "ACCEPT"

\* C5: a transform_ip call made while negotiated is false returns
\* NOT_NEGOTIATED and leaves the bytes and the gap flag of the buffer as
\* they were.
C5_NotNegotiatedFails ==
  (pc = "ti_done" /\ ~committed_params.negotiated)
    => (flow = "NOT_NEGOTIATED" /\ outbuf = inbuf0)

C5_Witness ==
  /\ pc = "ti_done"
  /\ ~committed_params.negotiated
  /\ inbuf0.gap
  /\ Len(inbuf0.data) = MaxSamples

\* C6: for a buffer tagged gap a negotiated transform_ip returns OK and
\* leaves the bytes of the buffer unchanged, whatever the committed gain.
C6_GapUntouched ==
  (pc = "ti_done" /\ committed_params.negotiated /\ inbuf0.gap)
    => (flow = "OK" /\ outbuf.data = inbuf0.data)

C6_Witness ==
  /\ pc = "ti_done"
  /\ committed_params.negotiated
  /\ inbuf0.gap
  /\ committed_params.p.volume = mute_volume
  /\ flow = "OK"

\* C7: for committed gain 0.0 and a negotiated buffer without the gap flag,
\* transform_ip zeroes every sample, sets the gap flag and does not invoke
\* the kernel.
C7_MuteZeroFills ==
  (/\ pc = "ti_done"
   /\ committed_params.negotiated
   /\ ~inbuf0.gap
   /\ committed_params.p.volume = mute_volume)
    => /\ flow = "OK"
       /\ Len(outbuf.data) = Len(inbuf0.data)
       /\ \A c \in 1..Len(outbuf.data) : outbuf.data[c] = Zero
       /\ outbuf.gap
       /\ kernel_used = NoKernel

C7_Witness ==
  /\ pc = "ti_done"
  /\ committed_params.negotiated
  /\ ~inbuf0.gap
  /\ committed_params.p.volume = mute_volume
  /\ Len(inbuf0.data) = MaxSamples
  /\ outbuf.gap

\* C8: for committed gain 1.0 transform_ip changes neither the content nor
\* the gap flag of the buffer, whatever kernel and format are committed.
C8_NeutralUntouched ==
  /\ (pc = "ti_done" /\ committed_params.p.volume = neutral_volume)
       => outbuf = inbuf0
  /\ pc = "kernel" => committed_params.p.volume # neutral_volume

C8_Witness ==
  /\ pc = "ti_done"
  /\ committed_params.negotiated
  /\ committed_params.p.volume = neutral_volume
  /\ committed_params.process # NoKernel
  /\ ~inbuf0.gap
  /\ flow = "OK"

\* C9: for a negotiated buffer without the gap flag and a committed gain g
\* other than 0 and 1, transform_ip runs the kernel of the negotiated sample
\* width, and afterwards each of the byteLength / sampleWidth samples is its
\* former value times g.
C9_KernelScalesEachSample ==
  (/\ pc = "ti_done"
   /\ committed_params.negotiated
   /\ ~inbuf0.gap
   /\ committed_params.p.volume \notin {mute_volume, neutral_volume})
    => /\ flow = "OK"
       /\ info_fmt \in FloatFormats
       /\ kernel_used = info_fmt
       /\ outbuf.gap = inbuf0.gap
       /\ Len(outbuf.data) = n_bytes(inbuf0) \div Width(info_fmt)
       /\ \A c \in 1..Len(inbuf0.data) :
            outbuf.data[c] =
              Fin(inbuf0.data[c].db + committed_params.p.volume.db)

C9_Witness ==
  /\ pc = "ti_done"
  /\ flow = "OK"
  /\ kernel_used = "F32"
  /\ ~inbuf0.gap
  /\ Len(inbuf0.data) = MaxSamples
  /\ committed_params.p.volume = Fin(-6)
  /\ outbuf.data[MaxSamples] = Fin(inbuf0.data[MaxSamples].db - 6)

\* C10: when the snapshot before_transform read equals committed_params.p,
\* before_transform leaves committed_params and the passthrough mode of the
\* pipeline as they are and does not call commit_params; before_transform
\* calls undisturbed by set_property commit at most once between them.
C10_Step ==
  /\ (/\ pc = "bt_compare"
      /\ pc' # "bt_compare"
      /\ committed_params.p = [volume |-> bt_volume,
                               passthrough |-> xformed_properties.passthrough])
       => /\ pc' = "bt_done"
          /\ ~bt_committed'
          /\ committed_params' = committed_params
          /\ base_passthrough' = base_passthrough
  /\ clean_commits' <= 1

C10_CommitIdempotent == [][C10_Step]_vars

C10_Witness ==
  /\ pc = "bt_done"
  /\ ~bt_committed
  /\ quiet
  /\ clean_commits = 1
  /\ committed_params.negotiated
  /\ committed_params.p = [volume |-> Fin(6), passthrough |-> FALSE]

\* C11: a set_property call raises the reconfigure-sink signal exactly when
\* its store flips the passthrough member of the retained snapshot; the
\* signal is raised after the lock is released, and no other step of
\* set_property raises it.
C11_Step ==
  /\ (set_pc = "store_passthrough" /\ set_pc' = "unlock")
       => should_reconfigure_sink =
            (xformed_properties'.passthrough # xformed_properties.passthrough)
  /\ (set_pc \in {"store_volume", "store_passthrough", "unlock"})
       => should_reconfigure_sink' = should_reconfigure_sink
  /\ (set_pc = "reconfigure" /\ set_pc' = "idle")
       => /\ ~obj_lock
          /\ should_reconfigure_sink => reconfigure_pending'
          /\ ~should_reconfigure_sink
               => reconfigure_pending' = reconfigure_pending
  /\ (reconfigure_pending' /\ ~reconfigure_pending)
       => (set_pc = "reconfigure" /\ set_pc' = "idle" /\ ~obj_lock)

C11_ReconfigureIffPassthroughFlips == [][C11_Step]_vars

C11_Witness ==
  /\ set_pc = "idle"
  /\ reconfigure_pending
  /\ ~obj_lock
  /\ ~xformed_properties.passthrough
  /\ sink_caps = AnyCaps

\* C12: a caps query on the sink pad reports every raw-audio format exactly
\* when the retained snapshot has passthrough set, and F32/F64 only
\* otherwise, in both cases restricted to the downstream caps and to the
\* filter of the query when there are any.
C12_SinkCapsFollowPassthrough ==
  LET allowed == IF xformed_properties.passthrough
                 THEN {"F32", "F64", "S16"} ELSE {"F32", "F64"}
      down == IF query_downstream_caps = NullCaps THEN allowed
              ELSE query_downstream_caps
      filt == IF query_filter = NullCaps THEN allowed ELSE query_filter
  IN sink_caps = {f \in allowed : f \in down /\ f \in filt}

C12_Witness ==
  /\ ~xformed_properties.passthrough
  /\ query_downstream_caps = {"F32", "S16"}
  /\ query_filter = {"F32", "F64", "S16"}
  /\ sink_caps = {"F32"}

\* Order of two levels, and of a gain against 1.0.
LufsLt(a, b) == a.db < b.db \/ (a.db = b.db /\ a.eps < b.eps)
GainLt1(v) == v.cls = "zero" \/ (v.cls = "fin" /\ v.db < 0)
GainGt1(v) == v.cls = "inf" \/ (v.cls = "fin" /\ v.db > 0)
GainEq1(v) == v.cls = "fin" /\ v.db = 0

\* set_property has called xform_properties on the properties it wrote.
XFormComputed == set_pc \in {"store_volume", "store_passthrough", "unlock"}

\* C13: for finite integrated loudness equal to the target level,
\* xform_properties yields gain 1.0 and passthrough true.
C13_EqualLevelsGiveUnity ==
  (XFormComputed /\ properties.integrated_loudness_lufs
                      = properties.target_level_lufs)
    => /\ GainEq1(new_xformed_properties.volume)
       /\ new_xformed_properties.passthrough

C13_Witness ==
  /\ set_pc = "store_volume"
  /\ properties.integrated_loudness_lufs = Lufs(-17)
  /\ properties.target_level_lufs = Lufs(-17)
  /\ new_xformed_properties.passthrough

\* C14, as stated: a target below the loudness gives a gain below 1.0, a
\* target above the loudness gives a gain above 1.0, and passthrough is
\* false whenever the two levels differ.
C14_StrictForAllLevels ==
  XFormComputed =>
    LET l == properties.integrated_loudness_lufs
        t == properties.target_level_lufs
    IN /\ LufsLt(t, l) => GainLt1(new_xformed_properties.volume)
       /\ LufsLt(l, t) => GainGt1(new_xformed_properties.volume)
       /\ l # t => ~new_xformed_properties.passthrough

\* C14, amended: a target below the loudness gives a gain of at most 1.0, a
\* target above the loudness gives a gain of at least 1.0; the gain is
\* strictly below or above 1.0, and passthrough false, when the levels differ
\* by an amount pow resolves.
C14_GainOrderedByLevels ==
  XFormComputed =>
    LET l == properties.integrated_loudness_lufs
        t == properties.target_level_lufs
        v == new_xformed_properties.volume
    IN /\ LufsLt(t, l) => (GainLt1(v) \/ GainEq1(v))
       /\ LufsLt(l, t) => (GainGt1(v) \/ GainEq1(v))
       /\ t.db < l.db => (GainLt1(v) /\ ~new_xformed_properties.passthrough)
       /\ t.db > l.db => (GainGt1(v) /\ ~new_xformed_properties.passthrough)

C14_Witness ==
  /\ set_pc = "store_volume"
  /\ properties.integrated_loudness_lufs = Lufs(-17)
  /\ properties.target_level_lufs = Lufs(-23)
  /\ new_xformed_properties = [volume |-> Fin(-6), passthrough |-> FALSE]

\* C15: the assertion of the default branch of commit_params never fails:
\* commit_params never runs with a format other than F32/F64 while the
\* snapshot it commits has passthrough false; in particular, after a
\* non-float format was negotiated in passthrough and a setter made the gain
\* differ from 1.0, no buffer of the old format reaches before_transform.
C15_CommitAssertNeverFails ==
  /\ ~(pc = "aborted" /\ cp_caller \in {"setup", "before_transform"}
         /\ ~base_passthrough /\ ~committed_params.negotiated)
  /\ ~(pc = "cp_copy_passthrough" /\ cp_caller = "before_transform"
         /\ info_fmt \in Formats \ FloatFormats
         /\ ~xformed_properties.passthrough /\ set_pc = "idle")

\* C16, as stated: after every commit the passthrough mode of the base class
\* equals committed_params.p.passthrough, the assertion at the top of
\* transform_ip never fails, and transform_ip is never entered with
\* committed_params.p.passthrough true.
C16_NeverEnteredInPassthrough ==
  /\ committed_params.negotiated
       => base_passthrough = committed_params.p.passthrough
  /\ ~(pc = "aborted" /\ base_passthrough)
  /\ pc \in {"kernel", "ti_done"} => ~base_passthrough
  /\ pc \in {"kernel", "ti_done"} => ~committed_params.p.passthrough

\* C16, amended: after every commit the passthrough mode of the base class
\* equals committed_params.p.passthrough, the assertion at the top of
\* transform_ip never fails, and once a commit has completed transform_ip is
\* never entered with committed_params.p.passthrough true.
C16_PassthroughModeFollowsCommit ==
  /\ committed_params.negotiated
       => base_passthrough = committed_params.p.passthrough
  /\ ~(pc = "aborted" /\ base_passthrough)
  /\ pc \in {"kernel", "ti_done"} => ~base_passthrough
  /\ (pc \in {"kernel", "ti_done"} /\ committed_params.negotiated)
       => ~committed_params.p.passthrough

C16_Witness ==
  /\ pc = "ti_done"
  /\ bt_committed
  /\ committed_params.negotiated
  /\ ~committed_params.p.passthrough
  /\ ~base_passthrough
  /\ flow = "OK"

\* C17: the committed snapshot always has passthrough true exactly when its
\* volume is 1.0; a volume of 0.0 is never committed with passthrough true.
C17_CommittedPassthroughIffUnity ==
  pc # "cp_copy_passthrough"
    => /\ committed_params.p.passthrough
            <=> GainEq1(committed_params.p.volume)
       /\ ~(committed_params.p.volume = mute_volume
              /\ committed_params.p.passthrough)

\* The format of the stream: the info setup was called with while setup
\* runs, the info the audio filter keeps otherwise.
NegotiatedFormat == IF pc = "setup_return" THEN cp_fmt ELSE info_fmt

\* C18: whenever negotiated is true the committed kernel is the one of the
\* format of the stream: process<gfloat> for F32, process<gdouble> for F64,
\* none for every other format; a commit made by before_transform takes the
\* kernel of the format negotiated last.
C18_KernelMatchesFormat ==
  committed_params.negotiated =>
    /\ NegotiatedFormat = "F32" => committed_params.process = "F32"
    /\ NegotiatedFormat = "F64" => committed_params.process = "F64"
    /\ NegotiatedFormat \notin {"F32", "F64"}
         => committed_params.process = NoKernel

C18_Witness ==
  /\ pc = "bt_done"
  /\ bt_committed
  /\ committed_params.negotiated
  /\ info_fmt = "F64"
  /\ committed_params.process = "F64"
  /\ ~committed_params.p.passthrough

\* C19: whenever the object lock is not held the retained snapshot is
\* xform_properties of the properties, which are -23/-23 with gain 1.0 and
\* passthrough true at first; a set_property call with an unknown id changes
\* neither the properties nor the snapshot and releases the lock.
C19_Step ==
  /\ (set_pc = "switch" /\ set_prop_id \notin {IntegratedLoudness, TargetLevel})
       => /\ set_pc' \in {"switch", "unlock_invalid"}
          /\ UNCHANGED <<properties, xformed_properties>>
  /\ set_pc = "unlock_invalid"
       => /\ set_pc' \in {"unlock_invalid", "idle"}
          /\ set_pc' = "idle" => (obj_lock /\ ~obj_lock')
          /\ UNCHANGED <<properties, xformed_properties>>
  /\ set_pc' = "idle" => ~obj_lock'

C19_SnapshotDerivedWhenUnlocked ==
  /\ properties = [integrated_loudness_lufs |-> Lufs(-23),
                   target_level_lufs |-> Lufs(-23)]
  /\ xformed_properties = [volume |-> Fin(0), passthrough |-> TRUE]
  /\ [](~obj_lock => xformed_properties = xform_properties(properties))
  /\ [][C19_Step]_vars

C19_Witness ==
  /\ ~obj_lock
  /\ set_pc = "reconfigure"
  /\ properties.integrated_loudness_lufs = Lufs(-23)
  /\ properties.target_level_lufs = Lufs(-17)
  /\ xformed_properties = [volume |-> Fin(6), passthrough |-> FALSE]

\* C20: transform_ip never changes the length of the buffer and never clears
\* the gap flag: a buffer with the flag set on entry has it set on return, and
\* the flag goes from unset to set only on the mute path.
C20_LengthAndGapKept ==
  pc \in {"kernel", "ti_done"} =>
    /\ outbuf.fmt = inbuf0.fmt
    /\ Len(outbuf.data) = Len(inbuf0.data)
    /\ n_bytes(outbuf) = n_bytes(inbuf0)
    /\ inbuf0.gap => outbuf.gap
    /\ (outbuf.gap /\ ~inbuf0.gap)
         => /\ committed_params.negotiated
            /\ committed_params.p.volume = mute_volume

C20_Witness ==
  /\ pc = "ti_done"
  /\ flow = "OK"
  /\ committed_params.negotiated
  /\ committed_params.p.volume = Fin(-6)
  /\ inbuf0.gap
  /\ outbuf.gap
  /\ Len(outbuf.data) = MaxSamples

\* Ids of the searches started so far, and of those whose reply
\* HandleSearchReply has taken from replies_.
Started == 1..(next_id - 1)
Handled == {id \in SearchIds : search_finished[id] > 0}
PendingIds == {reply_obj[replies_[i]].id : i \in 1..Len(replies_)}

C21_Inv ==
  /\ \A id \in SearchIds :
       /\ search_finished[id] <= 1
       /\ id \in delivered => search_finished[id] = 1
       /\ search_finished[id] = 1 => id \in delivered /\ id \in Started
  /\ \A i, j \in 1..Len(replies_) : replies_[i] = replies_[j] => i = j
  /\ provider_alive => PendingIds = Started \ Handled
  /\ ~provider_alive
       => /\ replies_ = <<>>
          /\ \A id \in pending_at_destruction : search_finished[id] = 0

C21_Step ==
  /\ ~provider_alive => search_finished' = search_finished
  /\ \A id \in SearchIds : search_finished'[id] <= search_finished[id] + 1

\* C21: every search started with StartSearch(id) whose reply finishes while
\* the provider exists gets SearchFinished(id) exactly once, whatever the
\* reply holds, also when the finished notification arrives more than once
\* and after CancelSearch(id); replies_ holds exactly the replies started and
\* not yet handled; after the destruction of the provider no SearchFinished
\* is emitted for the replies that were pending.
C21_SearchFinishedExactlyOnce == []C21_Inv /\ [][C21_Step]_vars

C21_Witness ==
  /\ provider_alive
  /\ \E reply \in cancelled :
       /\ reply_obj[reply].id \in delivered
       /\ search_finished[reply_obj[reply].id] = 1
       /\ reply_obj[reply].outcome = "http"
       /\ reply_obj[reply].delete_later
       /\ posted[reply] = 0
       /\ ~Contains(replies_, reply)
  /\ Len(replies_) = 1

====
